---- MODULE Spec2Model ----
(***************************************************************************)
(* KokoroQuest form components: StudentManagementModal (teacher) and       *)
(* PathEditor (admin).  The two components are independent React function  *)
(* components; a behaviour of this module is a behaviour of ONE mounted    *)
(* component (chosen in Init), the other one's private state stays at its  *)
(* initial value.                                                          *)
(*                                                                         *)
(* Every action is one event handler (or one promise continuation) run to  *)
(* completion: React flushes the state updates of a handler before the     *)
(* next event is dispatched, so a handler always closes over the state     *)
(* left by the previous one.                                               *)
(*                                                                         *)
(* Strings that the code inspects (trim, includes, truthiness) are         *)
(* sequences of one-character strings; opaque strings (messages, urls)     *)
(* are TLA+ strings.                                                       *)
(***************************************************************************)
EXTENDS Integers, Sequences, FiniteSets

VARIABLES
    component,          \* which component is mounted: "modal" or "editor"
    formData,           \* useState draft of the mounted component
    error,              \* useState<string | null>
    isSubmitting,       \* useState(false)
    pending,            \* number of onSave promises that have not settled
    calls,              \* prop callbacks invoked by the most recent step
    isOpen,             \* modal prop isOpen (owned by the parent)
    student,            \* modal prop student
    classId,            \* modal prop classId
    closeCalls,         \* onClose invocations since the modal was last shown
    selectedMilestone,  \* editor useState<Milestone | null> (the id of the stored object)
    isDragging,         \* editor useState(false)
    now                 \* value Date.now() returns

vars == <<component, formData, error, isSubmitting, pending, calls,
          isOpen, student, classId, closeCalls, selectedMilestone, isDragging, now>>

modalVars == <<isOpen, student, classId, closeCalls>>
editorVars == <<selectedMilestone, isDragging, now>>

----------------------------------------------------------------------------
(* Bounds of the model *)

\* most milestones a draft path holds
MaxMilestones == 2
\* last clock instant
MaxClock == 2
\* cap on the counter of unsettled saves
MaxPending == 2

----------------------------------------------------------------------------
(* Values *)

\* JavaScript null for string-valued state
Null == "<null>"
\* JavaScript null for object-valued state and props
NullObj == [null |-> TRUE]

\* String.prototype.trim: whitespace characters
IsWhitespace(c) == c \in {" ", "\t"}

RECURSIVE TrimStart(_)
TrimStart(s) ==
    IF s # <<>> /\ IsWhitespace(Head(s)) THEN TrimStart(Tail(s)) ELSE s

RECURSIVE TrimEnd(_)
TrimEnd(s) ==
    IF s # <<>> /\ IsWhitespace(s[Len(s)])
    THEN TrimEnd(SubSeq(s, 1, Len(s) - 1))
    ELSE s

\* s.trim()
Trim(s) == TrimEnd(TrimStart(s))

\* s.includes(c)
Includes(s, c) == \E i \in 1..Len(s) : s[i] = c

\* truthiness of a string: non-empty
Truthy(s) == Len(s) > 0

\* a || b on strings
OrElse(a, b) == IF Truthy(a) THEN a ELSE b

\* n.toString() for n >= 0: decimal digits
Digit(d) == <<"0", "1", "2", "3", "4", "5", "6", "7", "8", "9">>[d + 1]

RECURSIVE ToString(_)
ToString(n) ==
    IF n < 10 THEN <<Digit(n)>> ELSE ToString(n \div 10) \o <<Digit(n % 10)>>

----------------------------------------------------------------------------
(* Inputs *)

\* what a teacher can type in the name field
NameInputs == { <<>>, <<" ">>, <<" ", "\t">>, <<"A", "n", "a">> }
\* what a teacher can type in an email field
EmailInputs == { <<>>, <<"b", "a", "d">>, <<"a", "@", "b">> }
\* records the parent passes as the student prop
StudentProps ==
    { NullObj,
      [name |-> <<"B", "o">>, email |-> <<"a", "@", "b">>, parentEmail |-> <<>>] }
ClassIds == {"C1", "C2"}

\* what an admin can type in the path name / theme fields
PathTextInputs == { <<>>, <<" ">>, <<"P">> }
\* object URLs handed out by URL.createObjectURL
ObjectUrls == {"blob:1"}

\* the ways the injected onSave can reject: with an Error, or with another value
Rejections ==
    { [isError |-> TRUE, message |-> "network down"],
      [isError |-> FALSE, message |-> "ignored"] }

\* paths the parent passes as the path prop: none, or a path saved earlier, whose
\* milestones have distinct identifiers older than the clock and positions in range
PathProps ==
    { NullObj,
      [name |-> <<"P">>, theme |-> <<"P">>, backgroundImage |-> "img:0",
       milestones |->
         << [id |-> <<"0">>, position |-> [x |-> 20, y |-> 80],
             activityId |-> "act1", status |-> "completed"] >>] }

\* canvas bounding boxes (getBoundingClientRect); the canvas is a bordered block
\* of fixed height, so its box is never empty while it receives pointer events
Rects ==
    { [left |-> 0, top |-> 0, width |-> 400, height |-> 300],
      [left |-> 0, top |-> 30, width |-> 400, height |-> 240] }
\* pointer coordinates (clientX, clientY): left/above, right of, below the canvas
Pointers ==
    { [clientX |-> -40, clientY |-> -30],
      [clientX |-> 440, clientY |-> 150],
      [clientX |-> 100, clientY |-> 330] }

----------------------------------------------------------------------------
(* Messages *)

ErrNameRequired == "Student name is required"
ErrEmail == "Please enter a valid email address"
ErrParentEmail == "Please enter a valid parent email address"
ErrSaveStudent == "Failed to save student"
ErrRequiredFields == "Please fill in all required fields"
ErrSavePath == "Failed to save path"

----------------------------------------------------------------------------
(* Initial state *)

\* StudentManagementModal: useState initial draft
StudentInitialFormData(st) ==
    IF st = NullObj
    THEN [name |-> <<>>, email |-> <<>>, parentEmail |-> <<>>]
    ELSE [name |-> OrElse(st.name, <<>>),
          email |-> OrElse(st.email, <<>>),
          parentEmail |-> OrElse(st.parentEmail, <<>>)]

\* PathEditor: useState initial draft
PathInitialFormData(p) ==
    IF p = NullObj
    THEN [name |-> <<>>, theme |-> <<>>, backgroundImage |-> "", milestones |-> <<>>]
    ELSE [name |-> OrElse(p.name, <<>>),
          theme |-> OrElse(p.theme, <<>>),
          backgroundImage |-> p.backgroundImage,
          milestones |-> p.milestones]

InitModal ==
    /\ component = "modal"
    /\ student \in StudentProps
    /\ classId \in ClassIds
    /\ isOpen \in BOOLEAN
    /\ formData = StudentInitialFormData(student)
    /\ selectedMilestone = NullObj
    /\ isDragging = FALSE
    /\ now = 1

InitEditor ==
    /\ component = "editor"
    /\ \E p \in PathProps : formData = PathInitialFormData(p)
    /\ selectedMilestone = NullObj
    /\ isDragging = FALSE
    /\ now = 1
    /\ student = NullObj
    /\ classId = "C1"
    /\ isOpen = FALSE

Init ==
    /\ error = Null
    /\ isSubmitting = FALSE
    /\ pending = 0
    /\ calls = <<>>
    /\ closeCalls = 0
    /\ (InitModal \/ InitEditor)

----------------------------------------------------------------------------
(* Submit button *)

\* variant: the submit button is never disabled
SubmitEnabled_Always == TRUE

\* <button type="submit" disabled={isSubmitting}>: a click (or an implicit
\* submission by Enter) reaches the form's onSubmit only while the button is enabled
SubmitEnabled == ~isSubmitting

----------------------------------------------------------------------------
(* StudentManagementModal *)

\* variant: the name check without trim()
StudentValidate_NoTrim(fd) ==
    IF ~Truthy(fd.name) THEN ErrNameRequired
    ELSE IF Truthy(fd.email) /\ ~Includes(fd.email, "@") THEN ErrEmail
    ELSE IF Truthy(fd.parentEmail) /\ ~Includes(fd.parentEmail, "@") THEN ErrParentEmail
    ELSE Null

\* variant: the email check left out
StudentValidate_NoEmailCheck(fd) ==
    IF ~Truthy(Trim(fd.name)) THEN ErrNameRequired
    ELSE IF Truthy(fd.parentEmail) /\ ~Includes(fd.parentEmail, "@") THEN ErrParentEmail
    ELSE Null

\* variant: parentEmail checked before email
StudentValidate_ParentFirst(fd) ==
    IF ~Truthy(Trim(fd.name)) THEN ErrNameRequired
    ELSE IF Truthy(fd.parentEmail) /\ ~Includes(fd.parentEmail, "@") THEN ErrParentEmail
    ELSE IF Truthy(fd.email) /\ ~Includes(fd.email, "@") THEN ErrEmail
    ELSE Null

\* handleSubmit, the three checks: the message of the first failing one, or Null
StudentValidate(fd) ==
    IF ~Truthy(Trim(fd.name)) THEN ErrNameRequired
    ELSE IF Truthy(fd.email) /\ ~Includes(fd.email, "@") THEN ErrEmail
    ELSE IF Truthy(fd.parentEmail) /\ ~Includes(fd.parentEmail, "@") THEN ErrParentEmail
    ELSE Null

\* variant: the draft alone, the class identifier left empty
StudentPayload_NoClassId(fd, cid) ==
    [name |-> fd.name, email |-> fd.email, parentEmail |-> fd.parentEmail,
     classId |-> ""]

\* the argument of onSave: {...formData, classId}
StudentPayload(fd, cid) ==
    [name |-> fd.name, email |-> fd.email, parentEmail |-> fd.parentEmail,
     classId |-> cid]

\* the parent's onClose: it hides the modal
ParentOnClose == isOpen' = FALSE

\* onChange of the three inputs
StudentEdit(f, v) ==
    /\ component = "modal"
    /\ isOpen
    /\ formData' = [formData EXCEPT ![f] = v]
    /\ calls' = <<>>
    /\ UNCHANGED <<component, error, isSubmitting, pending>>
    /\ UNCHANGED modalVars
    /\ UNCHANGED editorVars

\* handleSubmit up to the await.  The submit event is delivered whenever the
\* submit button is enabled: the host's own constraint validation (required,
\* type="email") can only withhold submits, so leaving it out adds behaviours
\* and removes none.
StudentHandleSubmit ==
    /\ component = "modal"
    /\ isOpen
    /\ SubmitEnabled
    /\ pending < MaxPending
    /\ IF StudentValidate(formData) # Null
       THEN /\ error' = StudentValidate(formData)
            /\ calls' = <<>>
            /\ UNCHANGED <<isSubmitting, pending>>
       ELSE /\ isSubmitting' = TRUE
            /\ error' = Null
            /\ calls' = << [fn |-> "onSave", arg |-> StudentPayload(formData, classId)] >>
            /\ pending' = pending + 1
    /\ UNCHANGED <<component, formData>>
    /\ UNCHANGED modalVars
    /\ UNCHANGED editorVars

\* handleSubmit after the await, onSave resolved: onClose(), then finally
StudentSaveResolved ==
    /\ component = "modal"
    /\ pending > 0
    /\ pending' = pending - 1
    /\ calls' = << [fn |-> "onClose", arg |-> NullObj] >>
    /\ closeCalls' = closeCalls + 1
    /\ ParentOnClose
    /\ isSubmitting' = FALSE
    /\ UNCHANGED <<component, formData, error, student, classId>>
    /\ UNCHANGED editorVars

\* variant: the fallback string whatever was thrown
StudentCatchMessage_AlwaysFallback(rej) == ErrSaveStudent

\* the message the catch block shows
StudentCatchMessage(rej) == IF rej.isError THEN rej.message ELSE ErrSaveStudent

\* handleSubmit after the await, onSave rejected: catch, then finally
StudentSaveRejected(rej) ==
    /\ component = "modal"
    /\ pending > 0
    /\ pending' = pending - 1
    /\ error' = StudentCatchMessage(rej)
    /\ isSubmitting' = FALSE
    /\ calls' = <<>>
    /\ UNCHANGED <<component, formData>>
    /\ UNCHANGED modalVars
    /\ UNCHANGED editorVars

\* backdrop, X and Cancel: onClick={onClose}
StudentDismiss ==
    /\ component = "modal"
    /\ isOpen
    /\ calls' = << [fn |-> "onClose", arg |-> NullObj] >>
    /\ closeCalls' = closeCalls + 1
    /\ ParentOnClose
    /\ UNCHANGED <<component, formData, error, isSubmitting, pending,
                   student, classId>>
    /\ UNCHANGED editorVars

\* the parent shows the modal again, for a record of its choice; the component
\* stays mounted, so useState keeps the draft
StudentOpen(st) ==
    /\ component = "modal"
    /\ ~isOpen
    /\ isOpen' = TRUE
    /\ student' = st
    /\ closeCalls' = 0
    /\ calls' = <<>>
    /\ UNCHANGED <<component, formData, error, isSubmitting, pending, classId>>
    /\ UNCHANGED editorVars

NextModal ==
    \/ \E f \in {"name"} : \E v \in NameInputs : StudentEdit(f, v)
    \/ \E f \in {"email", "parentEmail"} : \E v \in EmailInputs : StudentEdit(f, v)
    \/ StudentHandleSubmit
    \/ StudentSaveResolved
    \/ \E rej \in Rejections : StudentSaveRejected(rej)
    \/ StudentDismiss
    \/ \E st \in StudentProps : StudentOpen(st)

----------------------------------------------------------------------------
(* PathEditor *)

\* (d / size) * 100; the pointers and boxes of the model make the quotient exact
Percent(d, size) == (d * 100) \div size

Min(a, b) == IF a <= b THEN a ELSE b
Max(a, b) == IF a >= b THEN a ELSE b

\* variant: no clamping
Clamp_Identity(v) == v

\* Math.max(0, Math.min(100, v))
Clamp(v) == Max(0, Min(100, v))

\* variant: the pointer taken relative to the viewport, not to the canvas origin
DragPosition_NoOrigin(e, rect) ==
    [x |-> Clamp(Percent(e.clientX, rect.width)),
     y |-> Clamp(Percent(e.clientY, rect.height))]

\* handleMouseMove: the position computed from the pointer and the bounding box
DragPosition(e, rect) ==
    [x |-> Clamp(Percent(e.clientX - rect.left, rect.width)),
     y |-> Clamp(Percent(e.clientY - rect.top, rect.height))]

\* handleAddMilestone: the identifier of the new milestone
NewMilestoneId == ToString(now)

\* handleAddMilestone: the new milestone
NewMilestone ==
    [id |-> NewMilestoneId, position |-> [x |-> 50, y |-> 50],
     activityId |-> "", status |-> "locked"]

\* prev.milestones.map(m => m.id === id ? {...m, position: pos} : m)
MoveMilestones(ms, id, pos) ==
    [i \in 1..Len(ms) |->
        IF ms[i].id = id THEN [ms[i] EXCEPT !.position = pos] ELSE ms[i]]

\* variant: the filter drops the first milestone, whatever its identifier
RemoveMilestones_First(ms, id) == IF ms = <<>> THEN <<>> ELSE Tail(ms)

\* prev.milestones.filter(m => m.id !== id)
RECURSIVE RemoveMilestones(_, _)
RemoveMilestones(ms, id) ==
    IF ms = <<>> THEN <<>>
    ELSE IF Head(ms).id # id
         THEN <<Head(ms)>> \o RemoveMilestones(Tail(ms), id)
         ELSE RemoveMilestones(Tail(ms), id)

\* onChange of the name and theme inputs
PathEdit(f, v) ==
    /\ component = "editor"
    /\ formData' = [formData EXCEPT ![f] = v]
    /\ calls' = <<>>
    /\ UNCHANGED <<component, error, isSubmitting, pending>>
    /\ UNCHANGED modalVars
    /\ UNCHANGED editorVars

\* handleImageUpload with a chosen file (without one it returns at once)
HandleImageUpload(url) ==
    /\ component = "editor"
    /\ formData' = [formData EXCEPT !.backgroundImage = url]
    /\ calls' = <<>>
    /\ UNCHANGED <<component, error, isSubmitting, pending>>
    /\ UNCHANGED modalVars
    /\ UNCHANGED editorVars

\* handleAddMilestone
HandleAddMilestone ==
    /\ component = "editor"
    /\ Len(formData.milestones) < MaxMilestones
    /\ formData' = [formData EXCEPT !.milestones = Append(@, NewMilestone)]
    /\ calls' = <<>>
    /\ UNCHANGED <<component, error, isSubmitting, pending>>
    /\ UNCHANGED modalVars
    /\ UNCHANGED editorVars

\* setSelectedMilestone(milestone): the component reads nothing but the id of the
\* object it stores (and whether it is null), so the model stores the id alone
Selection(m) == [id |-> m.id]

\* handleMilestoneMouseDown on the i-th rendered marker
HandleMilestoneMouseDown(i) ==
    /\ component = "editor"
    /\ i \in 1..Len(formData.milestones)
    /\ selectedMilestone' = Selection(formData.milestones[i])
    /\ isDragging' = TRUE
    /\ calls' = <<>>
    /\ UNCHANGED <<component, formData, error, isSubmitting, pending, now>>
    /\ UNCHANGED modalVars

\* variant: the early return does not look at isDragging
MouseMoveIgnored_NoDragCheck(rect) ==
    selectedMilestone = NullObj \/ rect = NullObj

\* handleMouseMove, the early return; rect = NullObj stands for
\* canvasRef.current being null
MouseMoveIgnored(rect) ==
    ~isDragging \/ selectedMilestone = NullObj \/ rect = NullObj

\* handleMouseMove
HandleMouseMove(e, rect) ==
    /\ component = "editor"
    /\ IF MouseMoveIgnored(rect)
       THEN UNCHANGED formData
       ELSE formData' =
               [formData EXCEPT !.milestones =
                   MoveMilestones(@, selectedMilestone.id, DragPosition(e, rect))]
    /\ calls' = <<>>
    /\ UNCHANGED <<component, error, isSubmitting, pending>>
    /\ UNCHANGED modalVars
    /\ UNCHANGED editorVars

\* handleMouseUp, the document-level mouseup listener
HandleMouseUp ==
    /\ component = "editor"
    /\ isDragging' = FALSE
    /\ calls' = <<>>
    /\ UNCHANGED <<component, formData, error, isSubmitting, pending,
                   selectedMilestone, now>>
    /\ UNCHANGED modalVars

\* onClick of "Remove Selected", rendered only while a milestone is selected
RemoveSelected ==
    /\ component = "editor"
    /\ selectedMilestone # NullObj
    /\ formData' = [formData EXCEPT !.milestones =
                        RemoveMilestones(@, selectedMilestone.id)]
    /\ selectedMilestone' = NullObj
    /\ calls' = <<>>
    /\ UNCHANGED <<component, error, isSubmitting, pending, isDragging, now>>
    /\ UNCHANGED modalVars

\* the clock moves on
Tick ==
    /\ component = "editor"
    /\ now < MaxClock
    /\ now' = now + 1
    /\ calls' = <<>>
    /\ UNCHANGED <<component, formData, error, isSubmitting, pending,
                   selectedMilestone, isDragging>>
    /\ UNCHANGED modalVars

\* variant: the theme is not checked
PathValidate_NameOnly(fd) ==
    IF ~Truthy(Trim(fd.name)) THEN ErrRequiredFields ELSE Null

\* handleSubmit, the check: the message, or Null
PathValidate(fd) ==
    IF ~Truthy(Trim(fd.name)) \/ ~Truthy(Trim(fd.theme))
    THEN ErrRequiredFields
    ELSE Null

\* handleSubmit up to the await
PathHandleSubmit ==
    /\ component = "editor"
    /\ SubmitEnabled
    /\ pending < MaxPending
    /\ IF PathValidate(formData) # Null
       THEN /\ error' = PathValidate(formData)
            /\ calls' = <<>>
            /\ UNCHANGED <<isSubmitting, pending>>
       ELSE /\ isSubmitting' = TRUE
            /\ error' = Null
            /\ calls' = << [fn |-> "onSave", arg |-> formData] >>
            /\ pending' = pending + 1
    /\ UNCHANGED <<component, formData>>
    /\ UNCHANGED modalVars
    /\ UNCHANGED editorVars

\* handleSubmit after the await, onSave resolved: finally
PathSaveResolved ==
    /\ component = "editor"
    /\ pending > 0
    /\ pending' = pending - 1
    /\ isSubmitting' = FALSE
    /\ calls' = <<>>
    /\ UNCHANGED <<component, formData, error>>
    /\ UNCHANGED modalVars
    /\ UNCHANGED editorVars

\* the message the catch block shows
PathCatchMessage(rej) == IF rej.isError THEN rej.message ELSE ErrSavePath

\* variant: the catch block without the finally block
PathSaveRejected_NoFinally(rej) ==
    /\ component = "editor"
    /\ pending > 0
    /\ pending' = pending - 1
    /\ error' = PathCatchMessage(rej)
    /\ calls' = <<>>
    /\ UNCHANGED <<component, formData, isSubmitting>>
    /\ UNCHANGED modalVars
    /\ UNCHANGED editorVars

\* handleSubmit after the await, onSave rejected: catch, then finally
PathSaveRejected(rej) ==
    /\ component = "editor"
    /\ pending > 0
    /\ pending' = pending - 1
    /\ error' = PathCatchMessage(rej)
    /\ isSubmitting' = FALSE
    /\ calls' = <<>>
    /\ UNCHANGED <<component, formData>>
    /\ UNCHANGED modalVars
    /\ UNCHANGED editorVars

NextEditor ==
    \/ \E f \in {"name", "theme"} : \E v \in PathTextInputs : PathEdit(f, v)
    \/ \E url \in ObjectUrls : HandleImageUpload(url)
    \/ HandleAddMilestone
    \/ \E i \in 1..MaxMilestones : HandleMilestoneMouseDown(i)
    \/ \E e \in Pointers : \E rect \in Rects \cup {NullObj} : HandleMouseMove(e, rect)
    \/ HandleMouseUp
    \/ RemoveSelected
    \/ Tick
    \/ PathHandleSubmit
    \/ PathSaveResolved
    \/ \E rej \in Rejections : PathSaveRejected(rej)

Next ==
    \/ NextModal
    \/ NextEditor

Spec == Init /\ [][Next]_vars

\* an outstanding onSave promise settles: it resolves or it rejects
SaveSettles ==
    \/ StudentSaveResolved
    \/ PathSaveResolved
    \/ \E rej \in Rejections : StudentSaveRejected(rej) \/ PathSaveRejected(rej)

\* the behaviours in which the injected save eventually settles
SpecSettling == Spec /\ WF_vars(SaveSettles)

----------------------------------------------------------------------------
(* Properties *)

Milestones == formData.milestones

\* onClose is among the callbacks a step invoked
CallsOnClose(cs) == \E i \in 1..Len(cs) : cs[i].fn = "onClose"
\* onSave is among the callbacks a step invoked
CallsOnSave(cs) == \E i \in 1..Len(cs) : cs[i].fn = "onSave"

\* C1: in both components at most one save is outstanding at any time: no
\* onSave is invoked while an earlier one has not settled.
C1_AtMostOneSaveOutstanding == pending <= 1

\* C1 witness: a save of the modal is outstanding, the modal is still shown and
\* its submit button is disabled
C1_Witness ==
    /\ component = "modal"
    /\ isOpen
    /\ pending = 1
    /\ isSubmitting

\* C1, in the editor: a save is outstanding and the submit button is disabled
C1_WitnessEditor ==
    /\ component = "editor"
    /\ pending = 1
    /\ isSubmitting

\* C2: the identifiers of the milestones of the path are pairwise distinct,
\* also after two adds within the same clock instant.
C2_UniqueIds ==
    component = "editor" =>
        \A i, j \in 1..Len(Milestones) :
            i # j => Milestones[i].id # Milestones[j].id

\* the sequence ms without its k-th element
WithoutIndex(ms, k) == SubSeq(ms, 1, k - 1) \o SubSeq(ms, k + 1, Len(ms))

\* C3: remove-selected takes exactly one milestone, the selected one, out of
\* the collection: the size drops by one and every other milestone stays, with
\* its identifier, position, status and relative order.
C3_RemoveTakesOne ==
    [][ (component = "editor" /\ selectedMilestone # NullObj
            /\ selectedMilestone' = NullObj)
        => \E k \in 1..Len(Milestones) :
              /\ Milestones[k].id = selectedMilestone.id
              /\ Milestones' = WithoutIndex(Milestones, k) ]_vars

\* C4: in every reachable state of the editor every milestone's position has x
\* and y within [0,100], whatever the pointer coordinates of the drags were.
C4_PositionsInRange ==
    component = "editor" =>
        \A i \in 1..Len(Milestones) :
            /\ Milestones[i].position.x >= 0
            /\ Milestones[i].position.x <= 100
            /\ Milestones[i].position.y >= 0
            /\ Milestones[i].position.y <= 100

\* C4 witness: one milestone was dragged left of and above the canvas, another
\* one beyond its right edge; both sit on the border
C4_Witness ==
    /\ component = "editor"
    /\ \E i, j \in 1..Len(Milestones) :
          /\ Milestones[i].position = [x |-> 0, y |-> 0]
          /\ Milestones[j].position = [x |-> 100, y |-> 50]

\* C5: a pointer-move that updates a position changes the position of one
\* milestone, the selected one, and nothing else: every other milestone, the
\* size and the order of the collection, and the selected milestone's
\* identifier, status and activity reference stay.
C5_MoveChangesOnlySelected ==
    [][ (component = "editor" /\ Milestones' # Milestones
            /\ Len(Milestones') = Len(Milestones))
        => /\ selectedMilestone # NullObj
           /\ \E k \in 1..Len(Milestones) :
                 /\ Milestones[k].id = selectedMilestone.id
                 /\ Milestones'[k].id = Milestones[k].id
                 /\ Milestones'[k].status = Milestones[k].status
                 /\ Milestones'[k].activityId = Milestones[k].activityId
                 /\ \A i \in 1..Len(Milestones) :
                       i # k => Milestones'[i] = Milestones[i] ]_vars

\* C3, C5 with distinct identifiers: where the identifiers of the collection are
\* pairwise distinct, remove-selected and pointer-move touch one milestone only
RemoveAndMoveTouchOneWhenIdsDistinct ==
    [][ C2_UniqueIds =>
          /\ (component = "editor" /\ selectedMilestone # NullObj
                 /\ selectedMilestone' = NullObj)
             => \E k \in 1..Len(Milestones) :
                   /\ Milestones[k].id = selectedMilestone.id
                   /\ Milestones' = WithoutIndex(Milestones, k)
          /\ (component = "editor" /\ Milestones' # Milestones
                 /\ Len(Milestones') = Len(Milestones))
             => /\ selectedMilestone # NullObj
                /\ \E k \in 1..Len(Milestones) :
                      /\ Milestones[k].id = selectedMilestone.id
                      /\ [Milestones'[k] EXCEPT !.position = Milestones[k].position]
                            = Milestones[k]
                      /\ \A i \in 1..Len(Milestones) :
                            i # k => Milestones'[i] = Milestones[i] ]_vars

\* the draft's name is empty or whitespace-only
NameBlank == \A i \in 1..Len(formData.name) : formData.name[i] \in {" ", "\t"}
\* the draft's email is non-empty and has no "@"
EmailBad == formData.email # <<>> /\ \A i \in 1..Len(formData.email) : formData.email[i] # "@"
\* the draft's parentEmail is non-empty and has no "@"
ParentEmailBad ==
    /\ formData.parentEmail # <<>>
    /\ \A i \in 1..Len(formData.parentEmail) : formData.parentEmail[i] # "@"

\* a step of the modal's submit that invokes nothing and starts no save
NoSaveNoClose ==
    /\ calls' = <<>>
    /\ pending' = pending
    /\ isSubmitting' = isSubmitting
    /\ isOpen' = isOpen

\* C6: a submit of a draft whose name is empty or whitespace-only ends with the
\* name-required error; save is not invoked and close is not triggered,
\* whatever email and parentEmail hold.
C6_BlankNameRejected ==
    [][ (StudentHandleSubmit /\ NameBlank)
        => (error' = ErrNameRequired /\ NoSaveNoClose) ]_vars

\* C6 witness: a whitespace-only name with a well-formed email was submitted
C6_Witness ==
    /\ component = "modal"
    /\ formData.name = <<" ", "\t">>
    /\ formData.email = <<"a", "@", "b">>
    /\ error = ErrNameRequired
    /\ calls = <<>>
    /\ pending = 0

\* C7 as stated: a submit of any draft whose email is non-empty and lacks "@"
\* ends with the email-format error and invokes no save.
C7_BadEmailAlwaysEmailError ==
    [][ (StudentHandleSubmit /\ EmailBad)
        => (error' = ErrEmail /\ NoSaveNoClose) ]_vars

\* C7 amended: a submit of a draft whose name is non-empty after trimming and
\* whose email is non-empty and lacks "@" ends with the email-format error; with
\* a blank name it ends with the name-required error; in both cases no save is
\* invoked.
C7_BadEmailRejected ==
    [][ (StudentHandleSubmit /\ EmailBad)
        => /\ error' = (IF NameBlank THEN ErrNameRequired ELSE ErrEmail)
           /\ NoSaveNoClose ]_vars

\* C7 witness: a named draft with an email without "@" was submitted
C7_Witness ==
    /\ component = "modal"
    /\ formData.name = <<"A", "n", "a">>
    /\ formData.email = <<"b", "a", "d">>
    /\ error = ErrEmail
    /\ calls = <<>>
    /\ pending = 0

\* C8: validation runs in the order name, email, parentEmail and stops at the
\* first failing check: the error is that check's, an empty email or
\* parentEmail is skipped, no save is invoked and the draft is left as it was.
C8_FirstFailureOnly ==
    [][ (StudentHandleSubmit /\ (NameBlank \/ EmailBad \/ ParentEmailBad))
        => /\ error' = (IF NameBlank THEN ErrNameRequired
                        ELSE IF EmailBad THEN ErrEmail
                        ELSE ErrParentEmail)
           /\ NoSaveNoClose
           /\ formData' = formData ]_vars

\* C8 witness: {name: "Ana", email: "", parentEmail: "bad"} was submitted and
\* the parent-email error is shown
C8_Witness ==
    /\ component = "modal"
    /\ formData = [name |-> <<"A", "n", "a">>, email |-> <<>>,
                   parentEmail |-> <<"b", "a", "d">>]
    /\ error = ErrParentEmail
    /\ calls = <<>>
    /\ pending = 0
    /\ ~isSubmitting

\* C9: when the injected save rejects, the error is the rejection's message if
\* it is an Error and the fixed fallback otherwise; close is not invoked, the
\* draft (in the editor also the selection) is unchanged, the in-progress flag
\* is cleared and save is not invoked again.
C9_RejectionSurfaced ==
    [][ \A rej \in Rejections :
          (StudentSaveRejected(rej) \/ PathSaveRejected(rej))
          => /\ error' = (IF rej.isError THEN rej.message
                          ELSE IF component = "modal" THEN ErrSaveStudent
                          ELSE ErrSavePath)
             /\ calls' = <<>>
             /\ isOpen' = isOpen
             /\ formData' = formData
             /\ selectedMilestone' = selectedMilestone
             /\ isSubmitting' = FALSE
             /\ pending' = pending - 1 ]_vars

\* C9 witness: the editor's save rejected with "network down" while a milestone
\* was selected; the message is shown and a new submit is possible
C9_Witness ==
    /\ component = "editor"
    /\ error = "network down"
    /\ selectedMilestone # NullObj
    /\ Len(Milestones) > 0
    /\ ~isSubmitting
    /\ pending = 0

\* C9, in the modal: the save rejected with a value that is no Error; the
\* fallback is shown and the modal is still open
C9_WitnessModal ==
    /\ component = "modal"
    /\ error = ErrSaveStudent
    /\ isOpen
    /\ ~isSubmitting
    /\ pending = 0

\* C10: a submit of a student draft that passes validation invokes save once,
\* with the draft's name, email and parentEmail and the injected classId; the
\* submit flow triggers close when that save has resolved, and not before it,
\* without it or after a rejection.
C10_SaveOnceThenClose ==
    [][ /\ (StudentHandleSubmit /\ ~NameBlank /\ ~EmailBad /\ ~ParentEmailBad)
           => /\ calls' = << [fn |-> "onSave",
                              arg |-> [name |-> formData.name,
                                       email |-> formData.email,
                                       parentEmail |-> formData.parentEmail,
                                       classId |-> classId]] >>
              /\ pending = 0
              /\ pending' = 1
              /\ isOpen' = isOpen
        /\ StudentSaveResolved => (calls' = << [fn |-> "onClose", arg |-> NullObj] >>)
        /\ (component = "modal" /\ CallsOnClose(calls') /\ ~StudentDismiss)
           => (pending = 1 /\ pending' = 0 /\ error' = error /\ ~CallsOnSave(calls'))
        /\ (component = "modal" /\ pending' < pending /\ error' # error)
           => ~CallsOnClose(calls') ]_vars

\* C10 witness: {name: "Ana", email: "a@b", parentEmail: "a@b"} was submitted
\* with classId "C1" and save was invoked with these four fields
C10_Witness ==
    /\ component = "modal"
    /\ pending = 1
    /\ calls = << [fn |-> "onSave",
                   arg |-> [name |-> <<"A", "n", "a">>, email |-> <<"a", "@", "b">>,
                            parentEmail |-> <<"a", "@", "b">>, classId |-> "C1"]] >>

\* C10, the resolution: the save resolved, close was triggered and the modal is hidden
C10_WitnessClosed ==
    /\ component = "modal"
    /\ calls = << [fn |-> "onClose", arg |-> NullObj] >>
    /\ ~isOpen
    /\ pending = 0
    /\ ~isSubmitting
    /\ error = Null
    /\ formData.name = <<"A", "n", "a">>

\* C11: whenever the modal is opened, the draft's name, email and parentEmail
\* are those of the record passed for that opening, or empty when none is
\* passed, whatever was edited or shown in an earlier opening.
C11_DraftFreshOnOpen ==
    [][ (component = "modal" /\ ~isOpen /\ isOpen')
        => formData' =
             (IF student' = NullObj
              THEN [name |-> <<>>, email |-> <<>>, parentEmail |-> <<>>]
              ELSE [name |-> student'.name, email |-> student'.email,
                    parentEmail |-> student'.parentEmail]) ]_vars

\* C12: a pointer-up ends the drag session; from then on, until the next
\* pointer-down on a milestone, no pointer-move changes a milestone; a
\* pointer-move is likewise a no-op while no milestone is selected or the
\* canvas reference is unavailable; a drag session starts by a pointer-down on a
\* milestone only.
C12_NoMoveOutsideDrag ==
    [][ /\ HandleMouseUp => ~isDragging'
        /\ (component = "editor" /\ (~isDragging \/ selectedMilestone = NullObj)
              /\ \E e \in Pointers : \E rect \in Rects \cup {NullObj} :
                    HandleMouseMove(e, rect))
           => formData' = formData
        /\ (\E e \in Pointers : HandleMouseMove(e, NullObj)) => formData' = formData
        /\ (component = "editor" /\ ~isDragging /\ isDragging')
           => \E i \in 1..Len(Milestones) :
                 selectedMilestone' = [id |-> Milestones[i].id] ]_vars

\* C12 witness: a milestone was dragged to the right border and released; it
\* is still selected and no drag is active
C12_Witness ==
    /\ component = "editor"
    /\ ~isDragging
    /\ selectedMilestone # NullObj
    /\ \E i \in 1..Len(Milestones) :
          /\ Milestones[i].id = selectedMilestone.id
          /\ Milestones[i].position = [x |-> 100, y |-> 50]

\* v is the clamp into [0,100] of 100 * d / size (size > 0), stated without division
IsClampedPercent(v, d, size) ==
    IF d <= 0 THEN v = 0
    ELSE IF d >= size THEN v = 100
    ELSE v * size = 100 * d

\* C13: with a canvas at (L,T) of size W x H, a pointer-move at (px,py) during
\* a drag sets the selected milestone's position to
\* x = clamp((px-L)/W*100, 0, 100), y = clamp((py-T)/H*100, 0, 100); a canvas
\* 400x300 at the origin and the pointer (440,150) give {100, 50}.
C13_DragPositionFormula ==
    [][ (component = "editor" /\ isDragging /\ selectedMilestone # NullObj
            /\ calls' = <<>> /\ selectedMilestone' = selectedMilestone
            /\ isDragging' /\ now' = now)
        => \A e \in Pointers : \A rect \in Rects :
              HandleMouseMove(e, rect)
              => /\ \A i \in 1..Len(Milestones) :
                      Milestones[i].id = selectedMilestone.id
                      => /\ IsClampedPercent(Milestones'[i].position.x,
                                             e.clientX - rect.left, rect.width)
                         /\ IsClampedPercent(Milestones'[i].position.y,
                                             e.clientY - rect.top, rect.height)
                 /\ (rect = [left |-> 0, top |-> 0, width |-> 400, height |-> 300]
                       /\ e = [clientX |-> 440, clientY |-> 150])
                    => \A i \in 1..Len(Milestones) :
                          Milestones[i].id = selectedMilestone.id
                          => Milestones'[i].position = [x |-> 100, y |-> 50] ]_vars

\* C13 witness: a drag is active and the selected milestone sits where the
\* pointer (440,150) puts it
C13_Witness ==
    /\ component = "editor"
    /\ isDragging
    /\ selectedMilestone # NullObj
    /\ \E i \in 1..Len(Milestones) :
          /\ Milestones[i].id = selectedMilestone.id
          /\ Milestones[i].position = [x |-> 100, y |-> 50]

\* a milestone the component treats as selected: selectedMilestone?.id === m.id
\* (the marker's ring; the match of the move and of the removal)
IsSelected(sel, m) == sel # NullObj /\ sel.id = m.id

\* add-milestone appends one milestone with position (50,50), empty activity
\* reference and status "locked" and leaves the existing milestones, the
\* selection state and the drag flag as they were
AddAppendsDefaultMilestone ==
    /\ Len(Milestones') = Len(Milestones) + 1
    /\ SubSeq(Milestones', 1, Len(Milestones)) = Milestones
    /\ Milestones'[Len(Milestones')].position = [x |-> 50, y |-> 50]
    /\ Milestones'[Len(Milestones')].activityId = ""
    /\ Milestones'[Len(Milestones')].status = "locked"
    /\ selectedMilestone' = selectedMilestone
    /\ isDragging' = isDragging

\* C14: add-milestone appends exactly one milestone at the end, with position
\* (50,50), empty activity reference and status "locked"; the existing
\* milestones, the selection and the drag flag are unchanged, and the new
\* milestone is not selected.
C14_AddAppendsUnselected ==
    [][ (component = "editor" /\ Len(Milestones') > Len(Milestones))
        => /\ AddAppendsDefaultMilestone
           /\ ~IsSelected(selectedMilestone', Milestones'[Len(Milestones')]) ]_vars

\* C14 but for the selection of the new milestone: the appended milestone has
\* the default fields and nothing else changes; and where its identifier is
\* new to the collection it is not selected either
AddFrameHolds ==
    [][ (component = "editor" /\ Len(Milestones') > Len(Milestones))
        => /\ AddAppendsDefaultMilestone
           /\ (\A i \in 1..Len(Milestones) :
                  Milestones[i].id # Milestones'[Len(Milestones')].id)
              => ~IsSelected(selectedMilestone', Milestones'[Len(Milestones')]) ]_vars

\* the identifier of milestone m differs from the selected one
NotTheSelectedId(m) == m.id # selectedMilestone.id

\* C15: remove-selected deletes the milestones matching the selected
\* identifier and clears the selection, so that afterwards nothing is selected
\* and no milestone with that identifier remains; it is unavailable while
\* nothing is selected; and no operation other than add-milestone and
\* remove-selected creates or destroys a milestone.
C15_RemoveSelectedOnly ==
    [][ component = "editor" =>
          /\ RemoveSelected
             => /\ selectedMilestone # NullObj
                /\ selectedMilestone' = NullObj
                /\ Milestones' = SelectSeq(Milestones, NotTheSelectedId)
                /\ \A i \in 1..Len(Milestones') :
                      Milestones'[i].id # selectedMilestone.id
                /\ Len(Milestones') < Len(Milestones)
          /\ (selectedMilestone # NullObj /\ selectedMilestone' = NullObj)
             => RemoveSelected
          /\ Len(Milestones') < Len(Milestones) => RemoveSelected
          /\ Len(Milestones') > Len(Milestones) => HandleAddMilestone
          /\ Len(Milestones') = Len(Milestones)
             => \A i \in 1..Len(Milestones) :
                   /\ Milestones'[i].id = Milestones[i].id
                   /\ Milestones'[i].status = Milestones[i].status
                   /\ Milestones'[i].activityId = Milestones[i].activityId ]_vars

\* C15 witness: the one milestone of a saved path was selected and removed;
\* the collection is empty and nothing is selected
C15_Witness ==
    /\ component = "editor"
    /\ formData.backgroundImage = "img:0"
    /\ Milestones = <<>>
    /\ selectedMilestone = NullObj

\* s is empty or whitespace-only
Blank(s) == \A i \in 1..Len(s) : s[i] \in {" ", "\t"}

\* C16: an editor submit with name or theme empty after trimming produces the
\* single required-fields error and invokes no save, whatever the background
\* image and the milestones are; a submit with both non-empty invokes save
\* once, with the draft's name, theme, backgroundImage and milestones as they
\* are then; the background image is not validated.
C16_PathSubmit ==
    [][ PathHandleSubmit =>
          IF Blank(formData.name) \/ Blank(formData.theme)
          THEN /\ error' = ErrRequiredFields
               /\ calls' = <<>>
               /\ pending' = pending
               /\ isSubmitting' = isSubmitting
               /\ formData' = formData
          ELSE /\ calls' = << [fn |-> "onSave",
                               arg |-> [name |-> formData.name,
                                        theme |-> formData.theme,
                                        backgroundImage |-> formData.backgroundImage,
                                        milestones |-> formData.milestones]] >>
               /\ pending = 0
               /\ pending' = 1
               /\ error' = Null
               /\ formData' = formData ]_vars

\* C16 witness: a path with a name, a whitespace-only theme, a background
\* image and a milestone was submitted and the required-fields error is shown
C16_Witness ==
    /\ component = "editor"
    /\ formData.name = <<"P">>
    /\ formData.theme = <<" ">>
    /\ formData.backgroundImage # ""
    /\ Len(Milestones) > 0
    /\ error = ErrRequiredFields
    /\ calls = <<>>
    /\ pending = 0

\* C16, the save: a path without background image was submitted and save was
\* invoked with its milestones
C16_WitnessSaved ==
    /\ component = "editor"
    /\ pending = 1
    /\ Len(calls) = 1
    /\ calls[1].fn = "onSave"
    /\ calls[1].arg.backgroundImage = ""
    /\ Len(calls[1].arg.milestones) = 2

\* C17: in every reachable state of the editor, an active drag has a selected
\* milestone, and a selected milestone's identifier is in the collection.
C17_DragImpliesSelection ==
    component = "editor" =>
        /\ isDragging => selectedMilestone # NullObj
        /\ selectedMilestone # NullObj
           => \E i \in 1..Len(Milestones) : Milestones[i].id = selectedMilestone.id

\* C17, second half: a selected milestone's identifier is in the collection
SelectionInCollection ==
    (component = "editor" /\ selectedMilestone # NullObj)
    => \E i \in 1..Len(Milestones) : Milestones[i].id = selectedMilestone.id

\* C18: the in-progress flag is true exactly while a save is outstanding; a
\* submit that fails validation leaves it false; and, the injected save
\* settling eventually, the flag is cleared again after every save, whether it
\* resolves or rejects, so the submit action does not stay disabled.
C18_FlagTracksSave ==
    /\ [](isSubmitting <=> pending > 0)
    /\ [][ /\ (StudentHandleSubmit /\ (NameBlank \/ EmailBad \/ ParentEmailBad))
              => (~isSubmitting' /\ pending' = 0)
           /\ (StudentHandleSubmit /\ ~(NameBlank \/ EmailBad \/ ParentEmailBad))
              => (isSubmitting' /\ pending' = 1)
           /\ (PathHandleSubmit /\ (Blank(formData.name) \/ Blank(formData.theme)))
              => (~isSubmitting' /\ pending' = 0)
           /\ (PathHandleSubmit /\ ~(Blank(formData.name) \/ Blank(formData.theme)))
              => (isSubmitting' /\ pending' = 1)
           /\ SaveSettles => ~isSubmitting' ]_vars
    /\ (isSubmitting ~> ~isSubmitting)

\* C18 witness: the editor's save rejected and the submit button is enabled again
C18_Witness ==
    /\ component = "editor"
    /\ error = ErrSavePath
    /\ ~isSubmitting
    /\ pending = 0

\* C19: in the student modal the close callback is triggered at most once per
\* opening of the modal, also when the user dismisses the modal while a save
\* is in flight and that save later resolves.  closeCalls counts the onClose
\* invocations since the modal was last opened.
C19_CloseAtMostOnce ==
    component = "modal" => closeCalls <= 1

====
